---------------------------- MODULE Spec2Model ----------------------------
(***************************************************************************)
(* Federated agent orchestrator (claude-code-labs, project 5.3):           *)
(* message_schema.py, message_queue.py, agents.py and orchestrator.py.     *)
(*                                                                         *)
(* Python values are modelled as follows.  A str is a TLA+ string, except  *)
(* the identifiers (uuid4 strings, correlation ids), which are tuples so   *)
(* that fresh ones can be generated: the empty str "" is the empty tuple.  *)
(* A dict is a function on strings, {} the empty function.  An Enum member *)
(* is the string of its NAME; its .value is looked up in the tables below, *)
(* so that to_json / from_json are real conversions.  None is the string   *)
(* "None" where a member or str may stand, and JSON null is "null".        *)
(***************************************************************************)
EXTENDS Integers, Sequences, FiniteSets, TLC

VARIABLES
    (* the broker *)
    queues,             \* queue name -> sequence of ready deliveries
    unacked,            \* agent -> the delivery handed to its consumer, not yet settled
    (* one agent runtime (process) per consuming agent *)
    agent,              \* agent -> position inside MessageQueue.consume.on_message
    settled,            \* history: the settlements the broker has received
    produced,           \* history: request message_id -> what process_task did
    (* the orchestrator process: shared fields *)
    channel,            \* Orchestrator.mq.channel: "None", "open" or "closed"
    tasks,              \* Orchestrator.tasks: task_id -> TaskStatus
    response_handlers,  \* Orchestrator.response_handlers: correlation_id -> callback
    running,            \* Orchestrator._running
    clock,              \* datetime.utcnow(), read by _handle_response
    uuids,              \* process -> number of uuid4() values it has drawn
    (* the orchestrator process: its two threads *)
    caller,             \* the caller's thread: position, locals, last return value
    listener,           \* the listener thread: position and locals
    invoked,            \* history: correlation_id -> number of callback invocations
    foreign,            \* history: number of deliveries published by other clients
    (* the message under test of the serialization specification *)
    msg, wire, decoded, reply

vars == <<queues, unacked, agent, settled, produced, channel, tasks, response_handlers,
          running, clock, uuids, caller, listener, invoked, foreign,
          msg, wire, decoded, reply>>

brokerVars == <<queues, unacked, agent, settled, produced>>
orchVars   == <<channel, tasks, response_handlers, running, clock, caller,
                listener, invoked>>
msgVars    == <<msg, wire, decoded, reply>>

-----------------------------------------------------------------------------
(* Bounds of the model *)

MaxTasks   == 1     \* submit_task calls explored
MaxForeign == 1     \* deliveries published by clients other than the modelled ones
MaxRetry   == 1     \* largest retry_count of a message under test
MaxAttempts == 5    \* largest max_retries handed to MessageQueue.connect
MaxTracked == 3     \* tasks in the table handed to clear_completed_tasks
MaxHealthChecks == 1    \* check_agent_health calls explored
MaxInstances == 2   \* runtime instances of one agent consuming the same mailbox

-----------------------------------------------------------------------------
(* message_schema.py: the enumerations *)

MessageTypeValues ==
    [TASK_REQUEST  |-> "task_request",  TASK_RESPONSE |-> "task_response",
     STATUS_UPDATE |-> "status_update", ERROR         |-> "error",
     HEARTBEAT     |-> "heartbeat"]

AgentTypeValues ==
    [LOCAL_CLAUDE |-> "local_claude", LOCAL_OPENAI |-> "local_openai",
     CLOUD_GEMINI |-> "cloud_gemini", ORCHESTRATOR |-> "orchestrator"]

TaskTypeValues ==
    [CODE_REVIEW        |-> "code_review",
     ARCHITECTURE_DESIGN |-> "architecture_design",
     CONTENT_GENERATION |-> "content_generation",
     BRAINSTORMING      |-> "brainstorming",
     DATA_ANALYSIS      |-> "data_analysis",
     WEB_RESEARCH       |-> "web_research",
     MULTI_AGENT_TASK   |-> "multi_agent_task"]

PriorityValues == [LOW |-> "low", MEDIUM |-> "medium", HIGH |-> "high"]

MessageType == DOMAIN MessageTypeValues
AgentType   == DOMAIN AgentTypeValues
TaskType    == DOMAIN TaskTypeValues
Priority    == DOMAIN PriorityValues

None      == "None"               \* None where an Enum member or a plain str may stand
NoneValue == [none |-> "None"]    \* None where a dict or an object may stand
EmptyStr  == <<>>
EmptyDict == <<>>

\* Enum(value): the member whose value is v; raises ValueError when there is none
HasValue(values, v) == \E k \in DOMAIN values : values[k] = v
EnumOf(values, v)   == CHOOSE k \in DOMAIN values : values[k] = v

\* dict.get(key, default)
Get(d, key, default) == IF key \in DOMAIN d THEN d[key] ELSE default

\* Python truthiness of a decoded JSON string-or-null
Truthy(v) == v \notin {"null", ""}

\* str(uuid.uuid4()): the n-th identifier drawn by process p
Uuid(p, n) == <<"uuid4", p, n>>

\* datetime.utcnow().isoformat() + "Z" of a constructed message; no modelled
\* code reads a message's timestamp
Timestamp == "2024-01-15T10:30:00Z"

-----------------------------------------------------------------------------
(* message_schema.py: AgentMessage *)

\* AgentMessage(...): the dataclass constructor with every field given
AgentMessage(mtype, source, target, payload, ttype, mid, ts, cid, prio, retry) ==
    [message_type   |-> mtype,
     source_agent   |-> source,
     target_agent   |-> target,
     payload        |-> payload,
     task_type      |-> ttype,
     message_id     |-> mid,
     timestamp      |-> ts,
     correlation_id |-> cid,
     priority       |-> prio,
     retry_count    |-> retry]

\* AgentMessage.to_json: the JSON object written to the wire
to_json(self) ==
    [message_id     |-> self.message_id,
     message_type   |-> MessageTypeValues[self.message_type],
     source_agent   |-> AgentTypeValues[self.source_agent],
     target_agent   |-> AgentTypeValues[self.target_agent],
     task_type      |-> IF self.task_type # None
                          THEN TaskTypeValues[self.task_type] ELSE "null",
     payload        |-> self.payload,
     correlation_id |-> self.correlation_id,
     priority       |-> PriorityValues[self.priority],
     timestamp      |-> self.timestamp,
     retry_count    |-> self.retry_count]

\* A body json.loads rejects
MalformedBody == [malformed |-> "{not json"]

\* The exception AgentMessage.from_json raises on body, or None
from_json_error(data) ==
    IF data = MalformedBody THEN "JSONDecodeError"
    ELSE IF ~ {"message_id", "message_type", "source_agent", "target_agent",
               "payload"} \subseteq DOMAIN data THEN "KeyError"
    ELSE IF \/ ~ HasValue(MessageTypeValues, data.message_type)
            \/ ~ HasValue(AgentTypeValues, data.source_agent)
            \/ ~ HasValue(AgentTypeValues, data.target_agent)
            \/ /\ Truthy(Get(data, "task_type", "null"))
               /\ ~ HasValue(TaskTypeValues, data.task_type)
            \/ ~ HasValue(PriorityValues, Get(data, "priority", "medium"))
         THEN "ValueError"
    ELSE None

\* from_json, except that retry_count is not read back
from_json_no_retry(data) ==
    AgentMessage(
        EnumOf(MessageTypeValues, data.message_type),
        EnumOf(AgentTypeValues, data.source_agent),
        EnumOf(AgentTypeValues, data.target_agent),
        data.payload,
        IF Truthy(Get(data, "task_type", "null"))
            THEN EnumOf(TaskTypeValues, data.task_type) ELSE None,
        data.message_id,
        Get(data, "timestamp", ""),
        Get(data, "correlation_id", EmptyStr),
        EnumOf(PriorityValues, Get(data, "priority", "medium")),
        0)

\* AgentMessage.from_json: the message a well-formed body decodes to
from_json(data) ==
    AgentMessage(
        EnumOf(MessageTypeValues, data.message_type),
        EnumOf(AgentTypeValues, data.source_agent),
        EnumOf(AgentTypeValues, data.target_agent),
        data.payload,
        IF Truthy(Get(data, "task_type", "null"))
            THEN EnumOf(TaskTypeValues, data.task_type) ELSE None,
        data.message_id,
        Get(data, "timestamp", ""),
        Get(data, "correlation_id", EmptyStr),
        EnumOf(PriorityValues, Get(data, "priority", "medium")),
        Get(data, "retry_count", 0))

\* create_response, except that the response is always correlated to the
\* request's own message_id
create_response_own_id(self, result, success, message_id) ==
    AgentMessage(
        IF success THEN "TASK_RESPONSE" ELSE "ERROR",
        self.target_agent,
        self.source_agent,
        [success |-> success, result |-> result],
        self.task_type,
        message_id,
        Timestamp,
        self.message_id,
        self.priority,
        0)

\* create_response, except that the addressing is copied, not inverted
create_response_unswapped(self, result, success, message_id) ==
    AgentMessage(
        IF success THEN "TASK_RESPONSE" ELSE "ERROR",
        self.source_agent,
        self.target_agent,
        [success |-> success, result |-> result],
        self.task_type,
        message_id,
        Timestamp,
        IF self.correlation_id # EmptyStr
            THEN self.correlation_id ELSE self.message_id,
        self.priority,
        0)

\* AgentMessage.create_response: message_id is the fresh uuid4 of the caller
create_response(self, result, success, message_id) ==
    AgentMessage(
        IF success THEN "TASK_RESPONSE" ELSE "ERROR",
        self.target_agent,
        self.source_agent,
        [success |-> success, result |-> result],
        self.task_type,
        message_id,
        Timestamp,
        IF self.correlation_id # EmptyStr
            THEN self.correlation_id ELSE self.message_id,
        self.priority,
        0)


-----------------------------------------------------------------------------
(* message_queue.py: the transport *)

AGENT_QUEUES ==
    [LOCAL_CLAUDE |-> "agent.local.claude", LOCAL_OPENAI |-> "agent.local.openai",
     CLOUD_GEMINI |-> "agent.cloud.gemini", ORCHESTRATOR |-> "agent.orchestrator"]

QueueNames == {AGENT_QUEUES[a] : a \in AgentType}

\* PriorityHint, except that "low" is missing from the map and takes the default
PriorityHint_low_defaulted(priority) == Get([medium |-> 5, high |-> 9], priority, 5)

\* The priority argument of pika.BasicProperties in send_message
PriorityHint(priority) == Get([low |-> 1, medium |-> 5, high |-> 9], priority, 5)

\* What basic_publish hands to the broker for message
Delivery(message) ==
    [body       |-> to_json(message),
     properties |-> [delivery_mode  |-> 2,
                     content_type   |-> "application/json",
                     correlation_id |-> message.correlation_id,
                     priority       |-> PriorityHint(PriorityValues[message.priority])]]

\* send_message: the queue the message is routed to, None for an unknown target
send_queue(message) == Get(AGENT_QUEUES, message.target_agent, None)

\* basic_publish, except that the delivery is copied to every mailbox
basic_publish_everywhere(qs, queue_name, message) ==
    [q \in DOMAIN qs |-> Append(qs[q], Delivery(message))]

\* basic_publish(exchange="", routing_key=queue_name): the queues afterwards
basic_publish(qs, queue_name, message) ==
    [qs EXCEPT ![queue_name] = Append(@, Delivery(message))]

\* consume(..., auto_ack=False): the default, which BaseAgent.start uses
auto_ack == FALSE

-----------------------------------------------------------------------------
(* agents.py: the agent runtime *)

\* The agents that run a runtime process in the explored deployment
Agents == {"LOCAL_CLAUDE"}

\* The result mappings and exception texts of the explored task handlers
Results  == {EmptyDict, [review |-> "ok"]}
ExcTexts == {"", "LLM call failed"}

\* BaseAgent.process_task is abstract: it may return any result or raise
process_task(task_type, payload) ==
    {[raises |-> FALSE, value |-> r] : r \in Results}
        \cup {[raises |-> TRUE, value |-> t] : t \in ExcTexts}

\* handle_message, except that the except clause answers with success=True
handle_message_success(self, message, outcome, message_id) ==
    IF message.message_type = "TASK_REQUEST"
    THEN create_response(message,
                         IF outcome.raises THEN [error |-> outcome.value]
                                           ELSE outcome.value,
                         TRUE, message_id)
    ELSE IF message.message_type = "HEARTBEAT"
    THEN AgentMessage("STATUS_UPDATE", self, message.source_agent,
                      [status |-> "alive", agent |-> AgentTypeValues[self]],
                      None, message_id, Timestamp, EmptyStr, "MEDIUM", 0)
    ELSE NoneValue

\* handle_message, except that a task whose process_task raises gets no response
handle_message_unanswered(self, message, outcome, message_id) ==
    IF message.message_type = "TASK_REQUEST"
    THEN IF ~ outcome.raises
         THEN create_response(message, outcome.value, TRUE, message_id)
         ELSE NoneValue
    ELSE IF message.message_type = "HEARTBEAT"
    THEN AgentMessage("STATUS_UPDATE", self, message.source_agent,
                      [status |-> "alive", agent |-> AgentTypeValues[self]],
                      None, message_id, Timestamp, EmptyStr, "MEDIUM", 0)
    ELSE NoneValue

\* handle_message, except that every message other than a task_request is
\* answered like a heartbeat
handle_message_always_alive(self, message, outcome, message_id) ==
    IF message.message_type = "TASK_REQUEST"
    THEN IF ~ outcome.raises
         THEN create_response(message, outcome.value, TRUE, message_id)
         ELSE create_response(message, [error |-> outcome.value], FALSE, message_id)
    ELSE AgentMessage("STATUS_UPDATE", self, message.source_agent,
                      [status |-> "alive", agent |-> AgentTypeValues[self]],
                      None, message_id, Timestamp, EmptyStr, "MEDIUM", 0)

\* BaseAgent.handle_message, for the outcome of process_task and a fresh uuid4
handle_message(self, message, outcome, message_id) ==
    IF message.message_type = "TASK_REQUEST"
    THEN IF ~ outcome.raises
         THEN create_response(message, outcome.value, TRUE, message_id)
         ELSE create_response(message, [error |-> outcome.value], FALSE, message_id)
    ELSE IF message.message_type = "HEARTBEAT"
    THEN AgentMessage("STATUS_UPDATE", self, message.source_agent,
                      [status |-> "alive", agent |-> AgentTypeValues[self]],
                      None, message_id, Timestamp, EmptyStr, "MEDIUM", 0)
    ELSE NoneValue

\* BaseAgent.start: bind to consume() on the agent's own mailbox
agent_start(a) ==
    /\ agent[a].pc = "idle"
    /\ agent' = [agent EXCEPT ![a].pc = "consuming"]
    /\ UNCHANGED <<queues, unacked, settled, produced, uuids, foreign>>
    /\ UNCHANGED orchVars
    /\ UNCHANGED msgVars

\* consume.on_message, lines 191-196: the broker delivers the head of the
\* mailbox (prefetch_count=1: only when nothing is unsettled), the body is
\* decoded and the callback (handle_message) runs
on_message_receive(a) ==
    /\ agent[a].pc = "consuming"
    /\ unacked[a] = NoneValue
    /\ queues[AGENT_QUEUES[a]] # <<>>
    /\ LET d == Head(queues[AGENT_QUEUES[a]])
       IN  /\ queues' = [queues EXCEPT ![AGENT_QUEUES[a]] = Tail(@)]
           /\ unacked' = [unacked EXCEPT ![a] = d]
           /\ IF from_json_error(d.body) # None
              THEN /\ agent' = [agent EXCEPT ![a] =
                            [pc |-> "settle", response |-> NoneValue, failed |-> TRUE]]
                   /\ uuids' = uuids
                   /\ produced' = produced
              ELSE \E outcome \in process_task(from_json(d.body).task_type,
                                               from_json(d.body).payload) :
                     LET message  == from_json(d.body)
                         response == handle_message(a, message, outcome,
                                                    Uuid(a, uuids[a] + 1))
                     IN  /\ agent' = [agent EXCEPT ![a] =
                                [pc       |-> IF response # NoneValue
                                                THEN "send" ELSE "settle",
                                 response |-> response,
                                 failed   |-> FALSE]]
                         /\ uuids' = IF response # NoneValue
                                       THEN [uuids EXCEPT ![a] = @ + 1] ELSE uuids
                         /\ produced' = IF message.message_type = "TASK_REQUEST"
                                          THEN (message.message_id :> outcome) @@ produced
                                          ELSE produced
    /\ UNCHANGED <<settled, foreign>>
    /\ UNCHANGED orchVars
    /\ UNCHANGED msgVars

\* consume.on_message, lines 199-200: send_message(response) on the agent's own
\* connected transport; a failing basic_publish makes it return False
on_message_send(a) ==
    /\ agent[a].pc = "send"
    /\ \E published \in BOOLEAN :
         queues' = IF published /\ send_queue(agent[a].response) # None
                     THEN basic_publish(queues, send_queue(agent[a].response),
                                        agent[a].response)
                     ELSE queues
    /\ agent' = [agent EXCEPT ![a].pc = "settle"]
    /\ UNCHANGED <<unacked, settled, produced, uuids, foreign>>
    /\ UNCHANGED orchVars
    /\ UNCHANGED msgVars

\* on_message_settle, except that a failed delivery is acknowledged too
on_message_settle_acks_failures(a) ==
    /\ agent[a].pc = "settle"
    /\ queues' = queues
    /\ settled' = settled \cup {[agent |-> a, kind |-> "ack", body |-> unacked[a].body]}
    /\ unacked' = [unacked EXCEPT ![a] = NoneValue]
    /\ agent' = [agent EXCEPT ![a] =
                    [pc |-> "consuming", response |-> NoneValue, failed |-> FALSE]]
    /\ UNCHANGED <<produced, uuids, foreign>>
    /\ UNCHANGED orchVars
    /\ UNCHANGED msgVars

\* consume.on_message, lines 203-209: basic_ack after the try body, or
\* basic_nack(requeue=True) in the except clause
on_message_settle(a) ==
    /\ agent[a].pc = "settle"
    /\ IF ~ agent[a].failed
       THEN /\ queues' = queues
            /\ settled' = IF auto_ack THEN settled
                          ELSE settled \cup {[agent |-> a, kind |-> "ack",
                                              body |-> unacked[a].body]}
       ELSE /\ queues' = IF auto_ack THEN queues
                         ELSE [queues EXCEPT ![AGENT_QUEUES[a]] = <<unacked[a]>> \o @]
            /\ settled' = IF auto_ack THEN settled
                          ELSE settled \cup {[agent |-> a, kind |-> "nack_requeue",
                                              body |-> unacked[a].body]}
    /\ unacked' = [unacked EXCEPT ![a] = NoneValue]
    /\ agent' = [agent EXCEPT ![a] =
                    [pc |-> "consuming", response |-> NoneValue, failed |-> FALSE]]
    /\ UNCHANGED <<produced, uuids, foreign>>
    /\ UNCHANGED orchVars
    /\ UNCHANGED msgVars

-----------------------------------------------------------------------------
(* orchestrator.py: TaskStatus and the caller's thread *)

Orch == "ORCHESTRATOR"

\* TaskStatus(task_id, task_type, target_agent): status "pending", result {},
\* completed_at "" (modelled as 0; a stamp is a clock reading >= 1).
\* submitted_at is written here once and read by no modelled code.
TaskStatus(task_id, task_type, target_agent) ==
    [task_id      |-> task_id,
     task_type    |-> task_type,
     target_agent |-> target_agent,
     status       |-> "pending",
     completed_at |-> 0,
     result       |-> EmptyDict]

Terminal == {"completed", "failed"}

\* The inputs of the explored submit_task calls
Targets     == {"LOCAL_CLAUDE", "remote_llama"}
SubmitTypes == {"CODE_REVIEW"}
Payloads    == {[code |-> "print('hello')"]}
Priorities  == {"HIGH"}
Callbacks   == {"returns", "raises"}

\* The task ids submit_task has issued so far
Issued == {Uuid(Orch, n) : n \in 1..uuids[Orch]}

CallerIdle == caller.pc = "idle"

\* The caller's thread back in the caller's own code: op names the operation
\* that returned and ret its return value
Return(op, value) ==
    [pc |-> "idle", op |-> op, message |-> NoneValue, task_id |-> EmptyStr,
     sent |-> FALSE, ret |-> value]

ReturnFrom(frame, value) == [frame EXCEPT !.pc = "idle", !.ret = value]

\* Orchestrator.connect -> MessageQueue.connect: the channel is opened when an
\* attempt succeeds and left as it was when every attempt fails
connect ==
    /\ CallerIdle
    /\ channel # "open"
    /\ \E ok \in BOOLEAN :
         /\ channel' = IF ok THEN "open" ELSE channel
         /\ caller' = Return("connect", [value |-> ok])
    /\ UNCHANGED <<tasks, response_handlers, running, clock, listener, invoked>>
    /\ UNCHANGED <<uuids, foreign>>
    /\ UNCHANGED brokerVars
    /\ UNCHANGED msgVars

\* Orchestrator.disconnect: stop the listener loop, close the connection.
\* join(timeout=2) does not wait for the listener beyond its timeout.
disconnect ==
    /\ CallerIdle
    /\ running \/ channel = "open"
    /\ running' = FALSE
    /\ channel' = IF channel = "open" THEN "closed" ELSE channel
    /\ caller' = Return("disconnect", NoneValue)
    /\ UNCHANGED <<tasks, response_handlers, clock, listener, invoked>>
    /\ UNCHANGED <<uuids, foreign>>
    /\ UNCHANGED brokerVars
    /\ UNCHANGED msgVars

\* Orchestrator.start_listener (explored while no listener thread is alive)
start_listener ==
    /\ CallerIdle
    /\ listener.pc = "stopped"
    /\ running' = TRUE
    /\ listener' = [listener EXCEPT !.pc = "loop"]
    /\ caller' = Return("start_listener", NoneValue)
    /\ UNCHANGED <<channel, tasks, response_handlers, clock, invoked>>
    /\ UNCHANGED <<uuids, foreign>>
    /\ UNCHANGED brokerVars
    /\ UNCHANGED msgVars

\* submit_task_begin, except that send_message reports success for a target
\* that has no queue
submit_task_begin_unchecked(target, task_type, payload, priority, on_complete) ==
    /\ CallerIdle
    /\ uuids[Orch] < MaxTasks
    /\ LET id      == Uuid(Orch, uuids[Orch] + 1)
           message == AgentMessage("TASK_REQUEST", Orch, target, payload, task_type,
                                   id, Timestamp, id, priority, 0)
       IN  /\ uuids' = [uuids EXCEPT ![Orch] = @ + 1]
           /\ tasks' = (id :> TaskStatus(id, task_type, target)) @@ tasks
           /\ response_handlers' =
                IF on_complete # None
                  THEN (id :> on_complete) @@ response_handlers
                  ELSE response_handlers
           /\ caller' = [pc      |-> IF channel = "None" \/ send_queue(message) = None
                                       THEN "after_send" ELSE "in_publish",
                         op      |-> "submit_task",
                         message |-> message,
                         task_id |-> id,
                         sent    |-> channel # "None" /\ send_queue(message) = None,
                         ret     |-> NoneValue]
    /\ UNCHANGED <<channel, running, clock, listener, invoked, foreign>>
    /\ UNCHANGED brokerVars
    /\ UNCHANGED msgVars

\* submit_task, lines 121-144, and send_message, lines 118-125: build the
\* request, track it, register the callback and enter send_message, up to the
\* checks it makes before the channel is used
submit_task_begin(target, task_type, payload, priority, on_complete) ==
    /\ CallerIdle
    /\ uuids[Orch] < MaxTasks
    /\ LET id      == Uuid(Orch, uuids[Orch] + 1)
           message == AgentMessage("TASK_REQUEST", Orch, target, payload, task_type,
                                   id, Timestamp, id, priority, 0)
       IN  /\ uuids' = [uuids EXCEPT ![Orch] = @ + 1]
           /\ tasks' = (id :> TaskStatus(id, task_type, target)) @@ tasks
           /\ response_handlers' =
                IF on_complete # None
                  THEN (id :> on_complete) @@ response_handlers
                  ELSE response_handlers
           /\ caller' = [pc      |-> IF channel = "None" \/ send_queue(message) = None
                                       THEN "after_send" ELSE "in_publish",
                         op      |-> "submit_task",
                         message |-> message,
                         task_id |-> id,
                         sent    |-> FALSE,
                         ret     |-> NoneValue]
    /\ UNCHANGED <<channel, running, clock, listener, invoked, foreign>>
    /\ UNCHANGED brokerVars
    /\ UNCHANGED msgVars

\* send_message, lines 127-144: basic_publish on the shared channel; any
\* exception (a closed connection, a broker failure) makes it return False
send_message_publish ==
    /\ caller.pc = "in_publish"
    /\ \E published \in BOOLEAN :
         /\ published => channel = "open"
         /\ queues' = IF published
                        THEN basic_publish(queues, send_queue(caller.message),
                                           caller.message)
                        ELSE queues
         /\ caller' = [caller EXCEPT !.pc = "after_send", !.sent = published]
    /\ UNCHANGED <<channel, tasks, response_handlers, running, clock, listener, invoked>>
    /\ UNCHANGED <<unacked, agent, settled, produced, uuids, foreign>>
    /\ UNCHANGED msgVars

\* submit_task_finish, except that the task id is returned whatever Send said
submit_task_finish_always ==
    /\ caller.pc = "after_send"
    /\ caller.op = "submit_task"
    /\ tasks' = [tasks EXCEPT ![caller.task_id].status =
                    IF caller.sent THEN "processing" ELSE "failed"]
    /\ caller' = ReturnFrom(caller, caller.task_id)
    /\ UNCHANGED <<channel, response_handlers, running, clock, listener, invoked>>
    /\ UNCHANGED <<uuids, foreign>>
    /\ UNCHANGED brokerVars
    /\ UNCHANGED msgVars

\* submit_task, lines 144-149: the status written after send_message returned
submit_task_finish ==
    /\ caller.pc = "after_send"
    /\ caller.op = "submit_task"
    /\ tasks' = [tasks EXCEPT ![caller.task_id].status =
                    IF caller.sent THEN "processing" ELSE "failed"]
    /\ caller' = ReturnFrom(caller, IF caller.sent THEN caller.task_id ELSE EmptyStr)
    /\ UNCHANGED <<channel, response_handlers, running, clock, listener, invoked>>
    /\ UNCHANGED <<uuids, foreign>>
    /\ UNCHANGED brokerVars
    /\ UNCHANGED msgVars

\* Orchestrator.get_task_status: self.tasks.get(task_id)
get_task_status(task_id) == Get(tasks, task_id, NoneValue)

\* wait_for_task: entering the poll loop (timeout > 0)
wait_for_task_begin(task_id) ==
    /\ CallerIdle
    /\ caller' = [pc |-> "wait", op |-> "wait_for_task", message |-> NoneValue,
                  task_id |-> task_id, sent |-> FALSE, ret |-> NoneValue]
    /\ UNCHANGED <<channel, tasks, response_handlers, running, clock, listener, invoked>>
    /\ UNCHANGED <<uuids, foreign>>
    /\ UNCHANGED brokerVars
    /\ UNCHANGED msgVars

\* wait_for_task_poll, except that the task is taken out of the table
wait_for_task_poll_pop ==
    /\ caller.pc = "wait"
    /\ caller.task_id \in DOMAIN tasks
    /\ tasks[caller.task_id].status \in Terminal
    /\ caller' = ReturnFrom(caller, tasks[caller.task_id].result)
    /\ tasks' = [k \in DOMAIN tasks \ {caller.task_id} |-> tasks[k]]
    /\ UNCHANGED <<channel, response_handlers, running, clock, listener, invoked>>
    /\ UNCHANGED <<uuids, foreign>>
    /\ UNCHANGED brokerVars
    /\ UNCHANGED msgVars

\* wait_for_task, lines 160-162: a poll that finds the task terminal
wait_for_task_poll ==
    /\ caller.pc = "wait"
    /\ caller.task_id \in DOMAIN tasks
    /\ tasks[caller.task_id].status \in Terminal
    /\ caller' = ReturnFrom(caller, tasks[caller.task_id].result)
    /\ UNCHANGED <<channel, tasks, response_handlers, running, clock, listener, invoked>>
    /\ UNCHANGED <<uuids, foreign>>
    /\ UNCHANGED brokerVars
    /\ UNCHANGED msgVars

\* wait_for_task_timeout, except that a task that timed out is forgotten
wait_for_task_timeout_forgets ==
    /\ caller.pc = "wait"
    /\ caller' = ReturnFrom(caller, NoneValue)
    /\ tasks' = [k \in DOMAIN tasks \ {caller.task_id} |-> tasks[k]]
    /\ UNCHANGED <<channel, response_handlers, running, clock, listener, invoked>>
    /\ UNCHANGED <<uuids, foreign>>
    /\ UNCHANGED brokerVars
    /\ UNCHANGED msgVars

\* wait_for_task, lines 159 and 165: the timeout elapsed
wait_for_task_timeout ==
    /\ caller.pc = "wait"
    /\ caller' = ReturnFrom(caller, NoneValue)
    /\ UNCHANGED <<channel, tasks, response_handlers, running, clock, listener, invoked>>
    /\ UNCHANGED <<uuids, foreign>>
    /\ UNCHANGED brokerVars
    /\ UNCHANGED msgVars

\* clear_completed_tasks, except that failed tasks are kept
clear_completed_tasks_keeps_failed ==
    /\ CallerIdle
    /\ \E k \in DOMAIN tasks : tasks[k].status \in Terminal
    /\ tasks' = [k \in {j \in DOMAIN tasks : tasks[j].status # "completed"}
                    |-> tasks[k]]
    /\ caller' = Return("clear_completed_tasks", NoneValue)
    /\ UNCHANGED <<channel, response_handlers, running, clock, listener, invoked>>
    /\ UNCHANGED <<uuids, foreign>>
    /\ UNCHANGED brokerVars
    /\ UNCHANGED msgVars

\* clear_completed_tasks
clear_completed_tasks ==
    /\ CallerIdle
    /\ \E k \in DOMAIN tasks : tasks[k].status \in Terminal
    /\ tasks' = [k \in {j \in DOMAIN tasks : tasks[j].status \notin Terminal}
                    |-> tasks[k]]
    /\ caller' = Return("clear_completed_tasks", NoneValue)
    /\ UNCHANGED <<channel, response_handlers, running, clock, listener, invoked>>
    /\ UNCHANGED <<uuids, foreign>>
    /\ UNCHANGED brokerVars
    /\ UNCHANGED msgVars

-----------------------------------------------------------------------------
(* orchestrator.py: the listener thread *)

\* handle_response_tasks, except that a task_response stores the whole payload
handle_response_tasks_wrapped(ts, message, now) ==
    IF message.correlation_id \in DOMAIN ts
    THEN [ts EXCEPT ![message.correlation_id] =
            [@ EXCEPT
               !.status = IF message.message_type = "TASK_RESPONSE" THEN "completed"
                          ELSE IF message.message_type = "ERROR" THEN "failed"
                          ELSE @,
               !.result = IF message.message_type \in {"TASK_RESPONSE", "ERROR"}
                            THEN message.payload ELSE @,
               !.completed_at = now]]
    ELSE ts

\* _handle_response, lines 90-100: the tasks table after message was handled
\* at clock reading now
handle_response_tasks(ts, message, now) ==
    IF message.correlation_id \in DOMAIN ts
    THEN [ts EXCEPT ![message.correlation_id] =
            [@ EXCEPT
               !.status = IF message.message_type = "TASK_RESPONSE" THEN "completed"
                          ELSE IF message.message_type = "ERROR" THEN "failed"
                          ELSE @,
               !.result = IF message.message_type = "TASK_RESPONSE"
                            THEN Get(message.payload, "result", message.payload)
                          ELSE IF message.message_type = "ERROR" THEN message.payload
                          ELSE @,
               !.completed_at = now]]
    ELSE ts

\* handle_response_handlers, except that the registration is read, not popped
handle_response_handlers_kept(hs, message) == hs

\* _handle_response, lines 103-105: the registrations left after message
handle_response_handlers(hs, message) ==
    IF message.correlation_id \in DOMAIN hs
    THEN [k \in DOMAIN hs \ {message.correlation_id} |-> hs[k]]
    ELSE hs

\* _handle_response(message)
handle_response(message) ==
    LET cid == message.correlation_id
    IN  /\ tasks' = handle_response_tasks(tasks, message, clock + 1)
        /\ clock' = IF cid \in DOMAIN tasks THEN clock + 1 ELSE clock
        /\ response_handlers' = handle_response_handlers(response_handlers, message)
        /\ invoked' = IF cid \in DOMAIN response_handlers
                        THEN (cid :> Get(invoked, cid, 0) + 1) @@ invoked
                        ELSE invoked
        /\ listener' = [pc      |-> "loop",
                        message |-> NoneValue,
                        raised  |-> /\ cid \in DOMAIN response_handlers
                                    /\ response_handlers[cid] = "raises"]

\* _listen_for_responses, lines 74-76: the loop test, then get_message up to
\* its use of the channel (with no channel it returns None and the loop sleeps)
listen_enter ==
    /\ listener.pc = "loop"
    /\ running
    /\ channel # "None"
    /\ listener' = [listener EXCEPT !.pc = "in_get"]
    /\ UNCHANGED <<channel, tasks, response_handlers, running, clock, caller, invoked>>
    /\ UNCHANGED <<uuids, foreign>>
    /\ UNCHANGED brokerVars
    /\ UNCHANGED msgVars

\* listen_get, except that the loop has no except clause: an exception of
\* get_message ends the listener thread
listen_get_uncaught ==
    /\ listener.pc = "in_get"
    /\ \E got \in BOOLEAN :
         LET q == AGENT_QUEUES[Orch]
         IN  IF got /\ channel = "open" /\ queues[q] # <<>>
             THEN /\ queues' = [queues EXCEPT ![q] = Tail(@)]
                  /\ listener' =
                       IF from_json_error(Head(queues[q]).body) = None
                         THEN [pc |-> "handle",
                               message |-> from_json(Head(queues[q]).body),
                               raised |-> FALSE]
                         ELSE [pc |-> "stopped", message |-> NoneValue, raised |-> TRUE]
             ELSE /\ queues' = queues
                  /\ listener' = [pc |-> IF ~ got \/ channel # "open"
                                           THEN "stopped" ELSE "loop",
                                  message |-> NoneValue,
                                  raised |-> ~ got \/ channel # "open"]
    /\ UNCHANGED <<channel, tasks, response_handlers, running, clock, caller, invoked>>
    /\ UNCHANGED <<unacked, agent, settled, produced, uuids, foreign>>
    /\ UNCHANGED msgVars

\* get_message, lines 238-242, and the except clause of the loop: basic_get with
\* auto_ack=True removes the head of the orchestrator mailbox; from_json or
\* basic_get may raise, which the loop catches
listen_get ==
    /\ listener.pc = "in_get"
    /\ \E got \in BOOLEAN :
         LET q == AGENT_QUEUES[Orch]
         IN  IF got /\ channel = "open" /\ queues[q] # <<>>
             THEN /\ queues' = [queues EXCEPT ![q] = Tail(@)]
                  /\ listener' =
                       IF from_json_error(Head(queues[q]).body) = None
                         THEN [pc |-> "handle",
                               message |-> from_json(Head(queues[q]).body),
                               raised |-> FALSE]
                         ELSE [pc |-> "loop", message |-> NoneValue, raised |-> TRUE]
             ELSE /\ queues' = queues
                  /\ listener' = [pc |-> "loop", message |-> NoneValue,
                                  raised |-> ~ got \/ channel # "open"]
    /\ UNCHANGED <<channel, tasks, response_handlers, running, clock, caller, invoked>>
    /\ UNCHANGED <<unacked, agent, settled, produced, uuids, foreign>>
    /\ UNCHANGED msgVars

\* _listen_for_responses, lines 77-83: _handle_response(message); an exception
\* of the callback is caught by the loop
listen_handle ==
    /\ listener.pc = "handle"
    /\ handle_response(listener.message)
    /\ UNCHANGED <<channel, running, caller>>
    /\ UNCHANGED <<uuids, foreign>>
    /\ UNCHANGED brokerVars
    /\ UNCHANGED msgVars

\* _listen_for_responses, line 74: the loop ends once _running is False
listen_exit ==
    /\ listener.pc = "loop"
    /\ ~ running
    /\ listener' = [listener EXCEPT !.pc = "stopped"]
    /\ UNCHANGED <<channel, tasks, response_handlers, running, clock, caller, invoked>>
    /\ UNCHANGED <<uuids, foreign>>
    /\ UNCHANGED brokerVars
    /\ UNCHANGED msgVars

-----------------------------------------------------------------------------
(* Other clients of the broker: anything may be published to a mailbox *)

\* Bodies another client may publish to the orchestrator mailbox: responses
\* that repeat or forge a correlation id, and bodies from_json rejects
ForeignResponses ==
    {to_json(AgentMessage(t, "LOCAL_CLAUDE", Orch, p, None, Uuid("other", 1),
                          Timestamp, c, "MEDIUM", 0)) :
        t \in {"TASK_RESPONSE", "ERROR", "STATUS_UPDATE"},
        p \in {[success |-> FALSE, result |-> [error |-> "stale"]]},
        c \in Issued \cup {Uuid("other", 0)}}

BadEnumBody ==
    [to_json(AgentMessage("HEARTBEAT", Orch, "LOCAL_CLAUDE", EmptyDict, None,
                          Uuid("other", 1), Timestamp, EmptyStr, "MEDIUM", 0))
        EXCEPT !.message_type = "shutdown"]

ForeignRequests ==
    {MalformedBody, BadEnumBody,
     to_json(AgentMessage("HEARTBEAT", Orch, "LOCAL_CLAUDE", EmptyDict, None,
                          Uuid("other", 1), Timestamp, EmptyStr, "MEDIUM", 0))}

foreign_publish(queue_name, body) ==
    /\ foreign < MaxForeign
    /\ foreign' = foreign + 1
    /\ queues' = [queues EXCEPT ![queue_name] =
                    Append(@, [body |-> body, properties |-> EmptyDict])]
    /\ UNCHANGED <<unacked, agent, settled, produced, uuids>>
    /\ UNCHANGED orchVars
    /\ UNCHANGED msgVars

-----------------------------------------------------------------------------
(* The system *)

NoMsgVars ==
    /\ msg = NoneValue
    /\ wire = NoneValue
    /\ decoded = NoneValue
    /\ reply = NoneValue

InitSystem ==
    /\ queues = [q \in QueueNames |-> <<>>]
    /\ unacked = [a \in Agents |-> NoneValue]
    /\ agent = [a \in Agents |->
                  [pc |-> "idle", response |-> NoneValue, failed |-> FALSE]]
    /\ settled = {}
    /\ produced = EmptyDict
    /\ channel = "None"
    /\ tasks = EmptyDict
    /\ response_handlers = EmptyDict
    /\ running = FALSE
    /\ clock = 0
    /\ uuids = [p \in AgentType |-> 0]
    /\ caller = Return("none", NoneValue)
    /\ listener = [pc |-> "stopped", message |-> NoneValue, raised |-> FALSE]
    /\ invoked = EmptyDict
    /\ foreign = 0

Init == InitSystem /\ NoMsgVars

submit_task ==
    \/ \E target \in Targets, task_type \in SubmitTypes, payload \in Payloads,
          priority \in Priorities, on_complete \in {None} \cup Callbacks :
            submit_task_begin(target, task_type, payload, priority, on_complete)
    \/ send_message_publish
    \/ submit_task_finish

wait_for_task ==
    \/ \E task_id \in Issued : wait_for_task_begin(task_id)
    \/ wait_for_task_poll
    \/ wait_for_task_timeout

listen_for_responses ==
    \/ listen_enter
    \/ listen_get
    \/ listen_handle
    \/ listen_exit

consume ==
    \E a \in Agents :
        \/ agent_start(a)
        \/ on_message_receive(a)
        \/ on_message_send(a)
        \/ on_message_settle(a)

other_clients ==
    \/ \E body \in ForeignResponses \cup {MalformedBody} :
          foreign_publish(AGENT_QUEUES[Orch], body)
    \/ \E body \in ForeignRequests :
          foreign_publish(AGENT_QUEUES["LOCAL_CLAUDE"], body)

Next ==
    \/ connect
    \/ disconnect
    \/ start_listener
    \/ submit_task
    \/ wait_for_task
    \/ clear_completed_tasks
    \/ listen_for_responses
    \/ consume
    \/ other_clients

Spec == Init /\ [][Next]_vars

-----------------------------------------------------------------------------
(* The system when the broker stays reachable, every send succeeds, nobody  *)
(* else publishes and the orchestrator is not disconnected; the threads are *)
(* scheduled fairly                                                         *)

connect_reachable == connect /\ channel' = "open"

submit_task_sent ==
    /\ submit_task
    /\ (caller.pc = "in_publish" /\ caller'.pc = "after_send") => caller'.sent

listen_reachable ==
    \/ listen_enter
    \/ listen_get /\ ~ listener'.raised
    \/ listen_handle

consume_sent ==
    /\ consume
    /\ \A a \in Agents :
          (agent[a].pc = "send" /\ agent'[a].pc = "settle") => queues' # queues

NextLive ==
    \/ connect_reachable
    \/ start_listener
    \/ submit_task_sent
    \/ wait_for_task
    \/ listen_reachable
    \/ consume_sent

\* A thread that is inside a call keeps running: the caller finishes its
\* submit_task, the listener keeps polling, the agent's consumer keeps going
SpecLive ==
    /\ Init
    /\ [][NextLive]_vars
    /\ WF_vars(submit_task_sent /\ ~ CallerIdle)
    /\ WF_vars(listen_reachable)
    /\ WF_vars(consume_sent)

-----------------------------------------------------------------------------
(* The system with the listener thread scheduled fairly and a broker that *)
(* answers basic_get as long as the channel is open                       *)

\* _listen_for_responses where get_message raises only for a closed channel
\* or for a body it has fetched and cannot decode
listen_served ==
    \/ listen_enter
    \/ listen_get /\ (listener'.raised => (channel # "open" \/ queues' # queues))
    \/ listen_handle
    \/ listen_exit

NextListen ==
    \/ connect
    \/ disconnect
    \/ start_listener
    \/ submit_task
    \/ listen_served
    \/ consume
    \/ other_clients

SpecListen == Init /\ [][NextListen]_vars /\ WF_vars(listen_served)

-----------------------------------------------------------------------------
(* Serialization of one message, from a bounded set of valid messages *)

TestIds      == {EmptyStr, Uuid("job", 1)}
TestPayloads == {EmptyDict, [success |-> TRUE, result |-> [review |-> "ok"]]}

Messages ==
    {AgentMessage(t, s, g, p, k, Uuid("msg", 1), Timestamp, c, pr, r) :
        t \in MessageType, s \in AgentType, g \in AgentType, p \in TestPayloads,
        k \in TaskType \cup {None}, c \in TestIds, pr \in Priority,
        r \in 0..MaxRetry}

InitMsg ==
    /\ InitSystem
    /\ msg \in Messages
    /\ wire = NoneValue
    /\ decoded = NoneValue
    /\ reply = NoneValue

\* wire = msg.to_json()
serialize ==
    /\ wire = NoneValue
    /\ wire' = to_json(msg)
    /\ UNCHANGED <<msg, decoded, reply>>
    /\ UNCHANGED <<uuids, foreign>>
    /\ UNCHANGED brokerVars
    /\ UNCHANGED orchVars

\* decoded = AgentMessage.from_json(wire)
deserialize ==
    /\ wire # NoneValue
    /\ decoded = NoneValue
    /\ decoded' = IF from_json_error(wire) = None
                    THEN from_json(wire)
                    ELSE [raised |-> from_json_error(wire)]
    /\ UNCHANGED <<msg, wire, reply>>
    /\ UNCHANGED <<uuids, foreign>>
    /\ UNCHANGED brokerVars
    /\ UNCHANGED orchVars

NextMsg ==
    \/ serialize
    \/ deserialize

SpecMsg == InitMsg /\ [][NextMsg]_vars

-----------------------------------------------------------------------------
(* create_response on one message, from the same bounded set of messages *)

\* The result mappings handed to create_response: those of process_task and
\* the {"error": str(e)} of handle_message's except clause
ResponseResults == Results \cup {[error |-> t] : t \in ExcTexts}

\* reply = msg.create_response(result, success)
respond ==
    /\ reply = NoneValue
    /\ \E result \in ResponseResults, success \in BOOLEAN :
         reply' = [message |-> create_response(msg, result, success, Uuid("reply", 1)),
                   result  |-> result,
                   success |-> success]
    /\ UNCHANGED <<msg, wire, decoded>>
    /\ UNCHANGED <<uuids, foreign>>
    /\ UNCHANGED brokerVars
    /\ UNCHANGED orchVars

NextResp == respond

SpecResp == InitMsg /\ [][NextResp]_vars

-----------------------------------------------------------------------------
(* message_queue.py: send_message of one message on a transport that is *)
(* connected or not                                                      *)

InitSend ==
    /\ queues = [q \in QueueNames |-> <<>>]
    /\ unacked = [a \in Agents |-> NoneValue]
    /\ agent = [a \in Agents |->
                  [pc |-> "idle", response |-> NoneValue, failed |-> FALSE]]
    /\ settled = {}
    /\ produced = EmptyDict
    /\ channel \in {"None", "open"}
    /\ tasks = EmptyDict
    /\ response_handlers = EmptyDict
    /\ running = FALSE
    /\ clock = 0
    /\ uuids = [p \in AgentType |-> 0]
    /\ caller = Return("none", NoneValue)
    /\ listener = [pc |-> "stopped", message |-> NoneValue, raised |-> FALSE]
    /\ invoked = EmptyDict
    /\ foreign = 0
    /\ msg \in Messages
    /\ wire = NoneValue
    /\ decoded = NoneValue
    /\ reply = NoneValue

\* reply = mq.send_message(msg)
send_message ==
    /\ reply = NoneValue
    /\ \E published \in BOOLEAN :
         /\ published => channel = "open" /\ send_queue(msg) # None
         /\ queues' = IF published
                        THEN basic_publish(queues, send_queue(msg), msg)
                        ELSE queues
         /\ reply' = [value |-> published]
    /\ UNCHANGED <<msg, wire, decoded>>
    /\ UNCHANGED <<unacked, agent, settled, produced, uuids, foreign>>
    /\ UNCHANGED orchVars

SpecSend == InitSend /\ [][send_message]_vars

-----------------------------------------------------------------------------
(* One agent runtime consuming a mailbox that holds one or two messages *)

\* The messages found in the mailbox of agent a: of every type, from every
\* sender, with and without a task_type and a correlation id
AgentInbox(a) ==
    {m \in Messages : /\ m.target_agent = a
                      /\ m.payload = EmptyDict
                      /\ m.priority = "MEDIUM"
                      /\ m.retry_count = 0
                      /\ m.task_type \in {None, "CODE_REVIEW"}}

\* The mailbox contents: one message, or two with different message ids
Mailboxes(a) ==
    {<<Delivery(m)>> : m \in AgentInbox(a)}
        \cup {<<Delivery(m), Delivery([n EXCEPT !.message_id = Uuid("msg", 2)])>> :
                 m \in AgentInbox(a), n \in AgentInbox(a)}

InitAgent ==
    /\ queues \in {[q \in QueueNames |->
                        IF q = AGENT_QUEUES["LOCAL_CLAUDE"] THEN box ELSE <<>>] :
                    box \in Mailboxes("LOCAL_CLAUDE")}
    /\ unacked = [a \in Agents |-> NoneValue]
    /\ agent = [a \in Agents |->
                  [pc |-> "idle", response |-> NoneValue, failed |-> FALSE]]
    /\ settled = {}
    /\ produced = EmptyDict
    /\ channel = "None"
    /\ tasks = EmptyDict
    /\ response_handlers = EmptyDict
    /\ running = FALSE
    /\ clock = 0
    /\ uuids = [p \in AgentType |-> 0]
    /\ caller = Return("none", NoneValue)
    /\ listener = [pc |-> "stopped", message |-> NoneValue, raised |-> FALSE]
    /\ invoked = EmptyDict
    /\ foreign = 0
    /\ NoMsgVars

SpecAgent == InitAgent /\ [][consume]_vars

-----------------------------------------------------------------------------
(* message_queue.py: MessageQueue.connect, attempt by attempt *)

BROADCAST_EXCHANGE == "agent.broadcast"

\* What one successful attempt declares on its channel
Declarations == QueueNames \cup {BROADCAST_EXCHANGE}

\* The retry_delay arguments explored (seconds; 5 is the default)
RetryDelays == {1, 5}

\* How one pass through the try block ends: it reaches return True, or
\* AMQPConnectionError is raised by BlockingConnection(params) (refused) or by
\* a declaration on the channel just opened (lost)
AttemptOutcomes == {"ok", "refused", "lost"}

\* connect(max_retries, retry_delay): entering the for loop
connect_begin(max_retries, retry_delay) ==
    /\ CallerIdle
    /\ caller' = [pc |-> "attempt", op |-> "connect", attempt |-> 0,
                  max_retries |-> max_retries, retry_delay |-> retry_delay,
                  slept |-> 0, declared |-> {}, ret |-> NoneValue]
    /\ UNCHANGED <<channel, tasks, response_handlers, running, clock, listener, invoked>>
    /\ UNCHANGED <<uuids, foreign>>
    /\ UNCHANGED brokerVars
    /\ UNCHANGED msgVars

\* connect_attempt, except that the delay is slept after the last attempt too
connect_attempt_always_sleeps ==
    /\ caller.pc = "attempt"
    /\ caller.attempt < caller.max_retries
    /\ \E outcome \in AttemptOutcomes :
         IF outcome = "ok"
         THEN /\ channel' = "open"
              /\ caller' = [caller EXCEPT !.pc = "idle", !.declared = Declarations,
                                          !.ret = [value |-> TRUE]]
         ELSE /\ channel' = IF outcome = "lost" THEN "closed" ELSE channel
              /\ caller' = [caller EXCEPT !.attempt = @ + 1, !.pc = "sleep"]
    /\ UNCHANGED <<tasks, response_handlers, running, clock, listener, invoked>>
    /\ UNCHANGED <<uuids, foreign>>
    /\ UNCHANGED brokerVars
    /\ UNCHANGED msgVars

\* connect, lines 83-105: one iteration of the for loop
connect_attempt ==
    /\ caller.pc = "attempt"
    /\ caller.attempt < caller.max_retries
    /\ \E outcome \in AttemptOutcomes :
         IF outcome = "ok"
         THEN /\ channel' = "open"
              /\ caller' = [caller EXCEPT !.pc = "idle", !.declared = Declarations,
                                          !.ret = [value |-> TRUE]]
         ELSE /\ channel' = IF outcome = "lost" THEN "closed" ELSE channel
              /\ caller' = [caller EXCEPT
                              !.attempt = @ + 1,
                              !.pc = IF caller.attempt < caller.max_retries - 1
                                       THEN "sleep" ELSE "attempt"]
    /\ UNCHANGED <<tasks, response_handlers, running, clock, listener, invoked>>
    /\ UNCHANGED <<uuids, foreign>>
    /\ UNCHANGED brokerVars
    /\ UNCHANGED msgVars

\* connect, line 105: time.sleep(retry_delay)
connect_sleep ==
    /\ caller.pc = "sleep"
    /\ caller' = [caller EXCEPT !.pc = "attempt", !.slept = @ + caller.retry_delay]
    /\ UNCHANGED <<channel, tasks, response_handlers, running, clock, listener, invoked>>
    /\ UNCHANGED <<uuids, foreign>>
    /\ UNCHANGED brokerVars
    /\ UNCHANGED msgVars

\* connect, lines 107-108: the loop is exhausted
connect_exhausted ==
    /\ caller.pc = "attempt"
    /\ caller.attempt >= caller.max_retries
    /\ caller' = [caller EXCEPT !.pc = "idle", !.ret = [value |-> FALSE]]
    /\ UNCHANGED <<channel, tasks, response_handlers, running, clock, listener, invoked>>
    /\ UNCHANGED <<uuids, foreign>>
    /\ UNCHANGED brokerVars
    /\ UNCHANGED msgVars

connect_steps ==
    \/ connect_attempt
    \/ connect_sleep
    \/ connect_exhausted

NextConn ==
    \/ \E max_retries \in 0..MaxAttempts, retry_delay \in RetryDelays :
          connect_begin(max_retries, retry_delay)
    \/ connect_steps

\* The thread that called connect keeps running: weak fairness of its steps
SpecConn == Init /\ [][NextConn]_vars /\ WF_vars(connect_steps)

-----------------------------------------------------------------------------
(* orchestrator.py: clear_completed_tasks on a table of several tasks *)

\* A tracked task in each state submit_task and _handle_response leave it in:
\* pending and processing as submit_task wrote them, failed by a failed send,
\* completed or failed by a response
TrackedTask(id, status) ==
    [TaskStatus(id, "CODE_REVIEW", "LOCAL_CLAUDE") EXCEPT
        !.status = status,
        !.completed_at = IF status = "completed" THEN 1 ELSE 0,
        !.result = IF status = "completed" THEN [review |-> "ok"] ELSE EmptyDict]

Statuses == {"pending", "processing", "completed", "failed"}

\* The tables of up to MaxTracked tasks
TaskTables ==
    UNION {[ids -> Statuses] : ids \in SUBSET {Uuid(Orch, n) : n \in 1..MaxTracked}}

InitClear ==
    /\ queues = [q \in QueueNames |-> <<>>]
    /\ unacked = [a \in Agents |-> NoneValue]
    /\ agent = [a \in Agents |->
                  [pc |-> "idle", response |-> NoneValue, failed |-> FALSE]]
    /\ settled = {}
    /\ produced = EmptyDict
    /\ channel = "open"
    /\ \E table \in TaskTables :
          tasks = [id \in DOMAIN table |-> TrackedTask(id, table[id])]
    /\ response_handlers = EmptyDict
    /\ running = FALSE
    /\ clock = 1
    /\ uuids = [p \in AgentType |-> IF p = Orch THEN MaxTracked ELSE 0]
    /\ caller = Return("none", NoneValue)
    /\ listener = [pc |-> "stopped", message |-> NoneValue, raised |-> FALSE]
    /\ invoked = EmptyDict
    /\ foreign = 0
    /\ NoMsgVars

SpecClear == InitClear /\ [][clear_completed_tasks]_vars

-----------------------------------------------------------------------------
(* orchestrator.py: check_agent_health, and message_queue.py: get_queue_stats *)

\* The agents check_agent_health sends a heartbeat to, in the order of its loop
HealthTargets == <<"LOCAL_CLAUDE", "LOCAL_OPENAI", "CLOUD_GEMINI">>

\* The consumer_count the broker reports for a queue: the runtimes bound to it
consumer_count(queue_name) ==
    Cardinality({a \in DOMAIN agent :
                    AGENT_QUEUES[a] = queue_name /\ agent[a].pc # "idle"})

\* get_queue_stats, where declared is the set of agents whose passive
\* queue_declare succeeded: the others are reported as zeros
get_queue_stats(declared) ==
    IF channel = "None" THEN EmptyDict
    ELSE [k \in {AgentTypeValues[a] : a \in AgentType} |->
            LET a == EnumOf(AgentTypeValues, k)
            IN  IF a \in declared
                  THEN [messages  |-> Len(queues[AGENT_QUEUES[a]]),
                        consumers |-> consumer_count(AGENT_QUEUES[a])]
                  ELSE [messages |-> 0, consumers |-> 0]]

\* health_verdict, except that every mailbox is reported healthy
health_verdict_optimistic(info) == "healthy"

\* check_agent_health, lines 229-232: the verdict for one entry of the stats
health_verdict(info) ==
    IF Get(info, "consumers", 0) > 0 THEN "healthy" ELSE "no_consumers"

\* check_agent_health: entering the heartbeat loop
health_begin ==
    /\ CallerIdle
    /\ uuids[Orch] < Len(HealthTargets) * MaxHealthChecks
    /\ caller' = [pc |-> "heartbeat", op |-> "check_agent_health",
                  todo |-> HealthTargets, attempted |-> <<>>, published |-> <<>>,
                  stats |-> NoneValue, ret |-> NoneValue]
    /\ UNCHANGED <<channel, tasks, response_handlers, running, clock, listener, invoked>>
    /\ UNCHANGED <<uuids, foreign>>
    /\ UNCHANGED brokerVars
    /\ UNCHANGED msgVars

\* check_agent_health, lines 215-223: one heartbeat is built and handed to
\* send_message, whose result is ignored
health_send ==
    /\ caller.pc = "heartbeat"
    /\ LET target  == Head(caller.todo)
           message == AgentMessage("HEARTBEAT", Orch, target, EmptyDict, None,
                                   Uuid(Orch, uuids[Orch] + 1), Timestamp,
                                   EmptyStr, "MEDIUM", 0)
       IN  /\ uuids' = [uuids EXCEPT ![Orch] = @ + 1]
           /\ \E published \in BOOLEAN :
                /\ published => channel = "open"
                /\ queues' = IF published
                               THEN basic_publish(queues, send_queue(message), message)
                               ELSE queues
                /\ caller' = [caller EXCEPT
                                !.todo = Tail(@),
                                !.attempted = Append(@, message),
                                !.published = IF published THEN Append(@, target) ELSE @,
                                !.pc = IF Tail(caller.todo) = <<>>
                                         THEN "stats" ELSE "heartbeat"]
    /\ UNCHANGED <<channel, tasks, response_handlers, running, clock, listener, invoked>>
    /\ UNCHANGED <<unacked, agent, settled, produced, foreign>>
    /\ UNCHANGED msgVars

\* check_agent_health, lines 226-234: the stats are read and turned into the
\* report; on a closed channel every passive queue_declare raises
health_report ==
    /\ caller.pc = "stats"
    /\ \E declared \in SUBSET AgentType :
         /\ channel # "open" => declared = {}
         /\ LET stats == get_queue_stats(declared)
            IN  caller' = [caller EXCEPT
                             !.pc = "idle",
                             !.stats = stats,
                             !.ret = [k \in DOMAIN stats |-> health_verdict(stats[k])]]
    /\ UNCHANGED <<channel, tasks, response_handlers, running, clock, listener, invoked>>
    /\ UNCHANGED <<uuids, foreign>>
    /\ UNCHANGED brokerVars
    /\ UNCHANGED msgVars

check_agent_health ==
    \/ health_begin
    \/ health_send
    \/ health_report

\* The deployments explored: any of the three agents running or not, the
\* orchestrator's transport never connected, connected or disconnected
InitHealth ==
    /\ queues = [q \in QueueNames |-> <<>>]
    /\ unacked = [a \in {HealthTargets[i] : i \in 1..3} |-> NoneValue]
    /\ agent \in [{HealthTargets[i] : i \in 1..3} ->
                    {[pc |-> p, response |-> NoneValue, failed |-> FALSE] :
                        p \in {"idle", "consuming"}}]
    /\ settled = {}
    /\ produced = EmptyDict
    /\ channel \in {"None", "open", "closed"}
    /\ tasks = EmptyDict
    /\ response_handlers = EmptyDict
    /\ running = FALSE
    /\ clock = 0
    /\ uuids = [p \in AgentType |-> 0]
    /\ caller = Return("none", NoneValue)
    /\ listener = [pc |-> "stopped", message |-> NoneValue, raised |-> FALSE]
    /\ invoked = EmptyDict
    /\ foreign = 0
    /\ NoMsgVars

NextHealth ==
    \/ check_agent_health
    \/ consume

SpecHealth == InitHealth /\ [][NextHealth]_vars

-----------------------------------------------------------------------------
(* message_queue.py: broadcast, beside point-to-point traffic *)

\* The queues bound to the fan-out exchange: connect declares the exchange
\* and no code ever binds a queue to it
bindings == {}

\* What broadcast hands to the broker for message: no priority and no
\* correlation property
Announcement(message) ==
    [body       |-> to_json(message),
     properties |-> [delivery_mode |-> 2, content_type |-> "application/json"]]

\* exchange_publish, except that every mailbox is bound to the exchange
exchange_publish_bound(qs, message) ==
    [q \in DOMAIN qs |-> Append(qs[q], Announcement(message))]

\* basic_publish(exchange=BROADCAST_EXCHANGE, routing_key=""): the broker
\* copies the message to every bound queue and keeps nothing otherwise
exchange_publish(qs, message) ==
    [q \in DOMAIN qs |->
        IF q \in bindings THEN Append(qs[q], Announcement(message)) ELSE qs[q]]

\* The announcements broadcast by the explored callers
Announcements ==
    {AgentMessage(t, Orch, g, [event |-> "shutdown"], None, Uuid("msg", 1),
                  Timestamp, EmptyStr, pr, 0) :
        t \in {"STATUS_UPDATE", "HEARTBEAT", "TASK_REQUEST"},
        g \in AgentType, pr \in Priority}

\* MessageQueue.broadcast(message) on the orchestrator's transport
broadcast(message) ==
    /\ CallerIdle
    /\ \E published \in BOOLEAN :
         /\ published => channel = "open"
         /\ queues' = IF published THEN exchange_publish(queues, message) ELSE queues
         /\ caller' = [pc |-> "idle", op |-> "broadcast", message |-> message,
                       task_id |-> EmptyStr, sent |-> published,
                       ret |-> [value |-> published]]
    /\ UNCHANGED <<channel, tasks, response_handlers, running, clock, listener, invoked>>
    /\ UNCHANGED <<unacked, agent, settled, produced, uuids, foreign>>
    /\ UNCHANGED msgVars

NextBroadcast ==
    \/ \E message \in Announcements : broadcast(message)
    \/ check_agent_health
    \/ consume

SpecBroadcast == InitHealth /\ [][NextBroadcast]_vars

-----------------------------------------------------------------------------
(* message_queue.py: several runtime instances consuming one mailbox, with *)
(* the broker's deliveries to each consumer made explicit                   *)

\* basic_qos(prefetch_count=1)
prefetch_count == 1

\* The instances of the LOCAL_CLAUDE agent, each with its own connection
Instances == 1..MaxInstances
InstanceType == "LOCAL_CLAUDE"

\* The mailbox before any instance starts: two messages with different ids,
\* possibly followed by a body that does not decode
SharedInbox ==
    {m \in AgentInbox(InstanceType) :
        /\ m.message_type \in {"TASK_REQUEST", "HEARTBEAT"}
        /\ m.source_agent = Orch
        /\ m.correlation_id = EmptyStr}

SharedMailboxes ==
    {<<Delivery(m), Delivery([n EXCEPT !.message_id = Uuid("msg", 2)])>> \o tail :
        m \in SharedInbox, n \in SharedInbox,
        tail \in {<<>>, <<[body |-> MalformedBody, properties |-> EmptyDict]>>}}

\* Here unacked[i] is the sequence of deliveries the broker has pushed to
\* instance i and that i has not settled
InitInstances ==
    /\ queues \in {[q \in QueueNames |->
                        IF q = AGENT_QUEUES[InstanceType] THEN box ELSE <<>>] :
                    box \in SharedMailboxes}
    /\ unacked = [i \in Instances |-> <<>>]
    /\ agent = [i \in Instances |->
                  [pc |-> "idle", response |-> NoneValue, failed |-> FALSE]]
    /\ settled = {}
    /\ produced = EmptyDict
    /\ channel = "None"
    /\ tasks = EmptyDict
    /\ response_handlers = EmptyDict
    /\ running = FALSE
    /\ clock = 0
    /\ uuids = [p \in AgentType |-> 0]
    /\ caller = Return("none", NoneValue)
    /\ listener = [pc |-> "stopped", message |-> NoneValue, raised |-> FALSE]
    /\ invoked = EmptyDict
    /\ foreign = 0
    /\ NoMsgVars

\* basic_deliver, except that basic_qos was never called: the broker pushes
\* to a consumer whatever it already holds
basic_deliver_unlimited(i) ==
    /\ agent[i].pc # "idle"
    /\ queues[AGENT_QUEUES[InstanceType]] # <<>>
    /\ unacked' = [unacked EXCEPT ![i] = Append(@, Head(queues[AGENT_QUEUES[InstanceType]]))]
    /\ queues' = [queues EXCEPT ![AGENT_QUEUES[InstanceType]] = Tail(@)]
    /\ UNCHANGED <<agent, settled, produced, uuids, foreign>>
    /\ UNCHANGED orchVars
    /\ UNCHANGED msgVars

\* The broker pushes the head of the mailbox to a registered consumer that
\* holds fewer than prefetch_count unsettled deliveries (basic_qos, then
\* basic_consume with auto_ack=False)
basic_deliver(i) ==
    /\ agent[i].pc # "idle"
    /\ Len(unacked[i]) < prefetch_count
    /\ queues[AGENT_QUEUES[InstanceType]] # <<>>
    /\ unacked' = [unacked EXCEPT ![i] = Append(@, Head(queues[AGENT_QUEUES[InstanceType]]))]
    /\ queues' = [queues EXCEPT ![AGENT_QUEUES[InstanceType]] = Tail(@)]
    /\ UNCHANGED <<agent, settled, produced, uuids, foreign>>
    /\ UNCHANGED orchVars
    /\ UNCHANGED msgVars

\* consume.on_message, lines 191-196, on the oldest delivery the instance
\* holds: the connection's single thread runs one callback at a time
on_message_run(i) ==
    /\ agent[i].pc = "consuming"
    /\ unacked[i] # <<>>
    /\ LET d == Head(unacked[i])
       IN  IF from_json_error(d.body) # None
           THEN /\ agent' = [agent EXCEPT ![i] =
                         [pc |-> "settle", response |-> NoneValue, failed |-> TRUE]]
                /\ uuids' = uuids
                /\ produced' = produced
           ELSE \E outcome \in process_task(from_json(d.body).task_type,
                                            from_json(d.body).payload) :
                  LET message  == from_json(d.body)
                      response == handle_message(InstanceType, message, outcome,
                                                 Uuid(InstanceType,
                                                      uuids[InstanceType] + 1))
                  IN  /\ agent' = [agent EXCEPT ![i] =
                             [pc       |-> IF response # NoneValue
                                             THEN "send" ELSE "settle",
                              response |-> response,
                              failed   |-> FALSE]]
                      /\ uuids' = IF response # NoneValue
                                    THEN [uuids EXCEPT ![InstanceType] = @ + 1]
                                    ELSE uuids
                      /\ produced' = IF message.message_type = "TASK_REQUEST"
                                       THEN (message.message_id :> outcome) @@ produced
                                       ELSE produced
    /\ UNCHANGED <<queues, unacked, settled, foreign>>
    /\ UNCHANGED orchVars
    /\ UNCHANGED msgVars

\* consume.on_message, lines 203-209, for the delivery the callback ran on
on_message_done(i) ==
    /\ agent[i].pc = "settle"
    /\ LET d == Head(unacked[i])
       IN  IF ~ agent[i].failed
           THEN /\ queues' = queues
                /\ settled' = settled \cup {[agent |-> i, kind |-> "ack",
                                              body |-> d.body]}
           ELSE /\ queues' = [queues EXCEPT ![AGENT_QUEUES[InstanceType]] = <<d>> \o @]
                /\ settled' = settled \cup {[agent |-> i, kind |-> "nack_requeue",
                                              body |-> d.body]}
    /\ unacked' = [unacked EXCEPT ![i] = Tail(@)]
    /\ agent' = [agent EXCEPT ![i] =
                    [pc |-> "consuming", response |-> NoneValue, failed |-> FALSE]]
    /\ UNCHANGED <<produced, uuids, foreign>>
    /\ UNCHANGED orchVars
    /\ UNCHANGED msgVars

NextInstances ==
    \E i \in Instances :
        \/ agent_start(i)
        \/ basic_deliver(i)
        \/ on_message_run(i)
        \/ on_message_send(i)
        \/ on_message_done(i)

SpecInstances == InitInstances /\ [][NextInstances]_vars

-----------------------------------------------------------------------------
(* Steps of the two orchestrator threads and of an agent, as action formulas *)

HandleStep      == listener.pc = "handle" /\ listener'.pc = "loop"
ListenerStep    == listener' # listener
ListenerRunning == running /\ listener.pc # "stopped"
SubmitBegins    == caller.pc = "idle" /\ caller'.pc # "idle" /\ caller'.op = "submit_task"
PublishStep     == caller.pc = "in_publish" /\ caller'.pc = "after_send"
SubmitReturns   == /\ caller.op = "submit_task"
                   /\ caller.pc = "after_send"
                   /\ caller'.pc = "idle"
ReceiveStep(a)  == agent[a].pc = "consuming" /\ agent'[a].pc # "consuming"
SettleStep(a)   == agent[a].pc = "settle" /\ agent'[a].pc = "consuming"

\* The delivery's body decodes to a task_request
IsRequest(d) ==
    /\ from_json_error(d.body) = None
    /\ from_json(d.body).message_type = "TASK_REQUEST"

-----------------------------------------------------------------------------
(* Properties *)

\* wait_for_task(id) has returned a result to the caller
WaitReturned(id) ==
    /\ caller.op = "wait_for_task"
    /\ caller.pc = "idle"
    /\ caller.task_id = id
    /\ caller.ret # NoneValue

\* process_task returned for request id, and no other client published anything
Answered(id) ==
    /\ id \in DOMAIN produced
    /\ ~ produced[id].raises
    /\ foreign = 0

\* C1, as stated: once the agent's process_task returned r for a submitted
\* task and the listener handled the response, wait_for_task returns the
\* wrapped mapping {success: true, result: r}.
C1_WaitReturnsWrapped ==
    \A id \in Issued :
        (Answered(id) /\ WaitReturned(id))
            => caller.ret = [success |-> TRUE, result |-> produced[id].value]

\* C1, amended: the listener records r itself, the payload's "result" entry,
\* so a task completed by the agent's response has result r, and whatever
\* wait_for_task returns for it is r, never the wrapped payload.
C1_WaitReturnsResult ==
    \A id \in Issued :
        Answered(id) =>
            /\ WaitReturned(id) => caller.ret = produced[id].value
            /\ (id \in DOMAIN tasks /\ tasks[id].status = "completed")
                  => tasks[id].result = produced[id].value

C1_Witness ==
    \E id \in Issued :
        /\ Answered(id)
        /\ WaitReturned(id)
        /\ produced[id].value = [review |-> "ok"]
        /\ caller.ret = [review |-> "ok"]

\* C2: a callback registered by submit_task is invoked by the first message
\* _handle_response sees with its correlation id, that invocation is its
\* first, its registration is removed in the same step, and nothing else ever
\* invokes a callback: duplicates find no registration.
C2_CallbackInvokedOnce ==
    [][ IF HandleStep
        THEN LET cid == listener.message.correlation_id
             IN  IF cid \in DOMAIN response_handlers
                 THEN /\ Get(invoked, cid, 0) = 0
                      /\ invoked' = (cid :> 1) @@ invoked
                      /\ cid \notin DOMAIN response_handlers'
                 ELSE invoked' = invoked
        ELSE invoked' = invoked ]_vars

\* Two messages with the task's correlation id were handled (it is the only
\* task, stamped at the second clock reading) and the callback ran once
C2_Witness ==
    \E id \in DOMAIN tasks :
        /\ uuids[Orch] = 1
        /\ tasks[id].completed_at = 2
        /\ Get(invoked, id, 0) = 1
        /\ id \notin DOMAIN response_handlers

\* C3: _handle_response on a message whose correlation_id is no key of tasks
\* does not raise and leaves the tasks table as it is.
C3_UnknownCorrelationNoOp ==
    [][ (HandleStep /\ listener.message.correlation_id \notin DOMAIN tasks)
            => (tasks' = tasks /\ ~ listener'.raised) ]_vars

C5_PoisonNotRequeued ==
    [][ \A a \in Agents :
          (SettleStep(a) /\ from_json_error(unacked[a].body) # None)
             => /\ queues'[AGENT_QUEUES[a]] = queues[AGENT_QUEUES[a]]
                /\ [agent |-> a, kind |-> "nack_requeue", body |-> unacked[a].body]
                      \notin settled' ]_vars

\* C6: submit_task tracks the request under its message_id, which is also its
\* correlation_id; send_message returns True exactly when the request was
\* appended to the target's mailbox; submit_task then writes processing and
\* returns the (non-empty) id, and otherwise writes failed and returns "".
C6_SubmitTaskOutcome ==
    [][ /\ SubmitBegins
             => LET id == caller'.message.message_id
                IN  /\ id # EmptyStr
                    /\ caller'.message.correlation_id = id
                    /\ id \notin DOMAIN tasks
                    /\ id \in DOMAIN tasks'
                    /\ tasks'[id].task_id = id
                    /\ tasks'[id].status = "pending"
                    /\ ~ caller'.sent
                    /\ queues' = queues
        /\ PublishStep
             => caller'.sent =
                  (queues' = basic_publish(queues, send_queue(caller.message),
                                           caller.message))
        /\ SubmitReturns
             => LET id == caller.message.message_id
                IN  /\ queues' = queues
                    /\ IF caller.sent
                       THEN /\ caller'.ret = id
                            /\ tasks'[id].status = "processing"
                       ELSE /\ caller'.ret = EmptyStr
                            /\ tasks'[id].status = "failed" ]_vars

C6_Witness ==
    /\ caller.op = "submit_task"
    /\ caller.pc = "idle"
    /\ caller.ret # EmptyStr
    /\ caller.ret = caller.message.message_id
    /\ caller.ret \in DOMAIN tasks
    /\ tasks[caller.ret].status = "processing"

\* C7: submit_task to a target that is no key of AGENT_QUEUES never reaches
\* basic_publish: no queue changes from the call to its return, it returns ""
\* and leaves the task failed.
C7_UnknownTargetFailsFast ==
    [][ /\ (SubmitBegins /\ caller'.message.target_agent \notin AgentType)
             => /\ caller'.pc = "after_send"
                /\ ~ caller'.sent
                /\ queues' = queues
        /\ (SubmitReturns /\ caller.message.target_agent \notin AgentType)
             => /\ caller'.ret = EmptyStr
                /\ tasks'[caller.message.message_id].status = "failed"
                /\ queues' = queues ]_vars

C7_Witness ==
    /\ channel = "open"
    /\ caller.op = "submit_task"
    /\ caller.pc = "idle"
    /\ caller.message.target_agent = "remote_llama"
    /\ caller.ret = EmptyStr
    /\ tasks[caller.message.message_id].status = "failed"
    /\ \A q \in QueueNames : queues[q] = <<>>

\* C8, as stated: while the listener is running, tasks and response_handlers
\* are written by the listener thread only.
C8_ListenerIsOnlyWriter ==
    [][ (ListenerRunning /\ (tasks' # tasks \/ response_handlers' # response_handlers))
            => ListenerStep ]_vars

\* C8, amended: both threads write the two tables.  The listener alone writes
\* result and completed_at and removes registrations, and it never adds or
\* removes a task or adds a registration; every other write (the insertions
\* and the status written by submit_task, the removals of
\* clear_completed_tasks) is the caller's, and wait_for_task writes nothing.
C8_WritersOfSharedState ==
    [][ /\ ListenerStep
             => /\ DOMAIN tasks' = DOMAIN tasks
                /\ DOMAIN response_handlers' \subseteq DOMAIN response_handlers
        /\ ~ ListenerStep
             => /\ \A k \in DOMAIN tasks \cap DOMAIN tasks' :
                      /\ tasks'[k].result = tasks[k].result
                      /\ tasks'[k].completed_at = tasks[k].completed_at
                /\ \A k \in DOMAIN response_handlers :
                      /\ k \in DOMAIN response_handlers'
                      /\ response_handlers'[k] = response_handlers[k]
        /\ caller.op = "wait_for_task" /\ caller'.op = "wait_for_task"
             => (ListenerStep \/ (tasks' = tasks /\ response_handlers' = response_handlers))
      ]_vars

\* The caller's thread wrote processing while the listener was running
C8_Witness ==
    /\ ListenerRunning
    /\ caller.op = "submit_task"
    /\ caller.pc = "idle"
    /\ caller.ret \in DOMAIN tasks
    /\ tasks[caller.ret].status = "processing"

\* C9: the listener thread and the caller's thread are never both inside an
\* operation on the orchestrator's one channel.
C9_ChannelSingleOwner ==
    ~ (listener.pc = "in_get" /\ caller.pc = "in_publish")

\* C10: from_json(to_json(m)) = m, field for field, for every valid message m.
C10_RoundTrip ==
    decoded # NoneValue => decoded = msg

C10_Witness ==
    /\ decoded # NoneValue
    /\ msg.message_type = "ERROR"
    /\ msg.task_type = None
    /\ msg.correlation_id = EmptyStr
    /\ msg.retry_count > 0
    /\ wire.task_type = "null"
    /\ wire.message_type = "error"

\* C11: the response made by create_response carries the request's
\* correlation_id when that is set, and the request's message_id when it is
\* the empty string, whatever the result and the success flag.
C11_ResponseCorrelation ==
    reply # NoneValue =>
        reply.message.correlation_id =
            IF msg.correlation_id # EmptyStr THEN msg.correlation_id
                                             ELSE msg.message_id

\* A failure response to a message with no correlation id of its own
C11_Witness ==
    /\ reply # NoneValue
    /\ ~ reply.success
    /\ msg.correlation_id = EmptyStr
    /\ reply.message.correlation_id = Uuid("msg", 1)

\* C12: the response made by create_response is addressed back (source and
\* target swapped), keeps the task_type, and is a task_response when success
\* is true and an error when it is false.
C12_ResponseAddressing ==
    reply # NoneValue =>
        /\ reply.message.source_agent = msg.target_agent
        /\ reply.message.target_agent = msg.source_agent
        /\ reply.message.task_type = msg.task_type
        /\ reply.message.message_type =
              IF reply.success THEN "TASK_RESPONSE" ELSE "ERROR"
        /\ reply.message.payload =
              [success |-> reply.success, result |-> reply.result]

\* A success response between two different agents, for a typed request
C12_Witness ==
    /\ reply # NoneValue
    /\ reply.success
    /\ msg.source_agent = "ORCHESTRATOR"
    /\ msg.target_agent = "CLOUD_GEMINI"
    /\ msg.task_type = "DATA_ANALYSIS"
    /\ reply.message.source_agent = "CLOUD_GEMINI"
    /\ reply.message.target_agent = "ORCHESTRATOR"
    /\ reply.message.message_type = "TASK_RESPONSE"

\* C13: on a task_request handle_message returns one response whatever
\* process_task does (a task_response wrapping the result, an error wrapping
\* the exception text) and nothing propagates into on_message: the delivery
\* is acknowledged, not put back, and the consumer is ready for the next one.
C13_HandleMessageAlwaysResponds ==
    [][ \A a \in Agents :
          /\ (ReceiveStep(a) /\ IsRequest(unacked'[a]))
                => LET request  == from_json(unacked'[a].body)
                       outcome  == produced'[request.message_id]
                       response == agent'[a].response
                   IN  /\ ~ agent'[a].failed
                       /\ agent'[a].pc = "send"
                       /\ response # NoneValue
                       /\ uuids'[a] = uuids[a] + 1
                       /\ response.message_id = Uuid(a, uuids'[a])
                       /\ response.target_agent = request.source_agent
                       /\ response.message_type =
                             IF outcome.raises THEN "ERROR" ELSE "TASK_RESPONSE"
                       /\ response.payload =
                             IF outcome.raises
                               THEN [success |-> FALSE,
                                     result  |-> [error |-> outcome.value]]
                               ELSE [success |-> TRUE, result |-> outcome.value]
          /\ (SettleStep(a) /\ IsRequest(unacked[a]))
                => /\ agent'[a].pc = "consuming"
                   /\ unacked'[a] = NoneValue
                   /\ queues'[AGENT_QUEUES[a]] = queues[AGENT_QUEUES[a]]
                   /\ [agent |-> a, kind |-> "ack", body |-> unacked[a].body]
                         \in settled' ]_vars

\* The first request failed in process_task and the request queued behind it
\* was processed and acknowledged afterwards
C13_Witness ==
    /\ Uuid("msg", 1) \in DOMAIN produced
    /\ produced[Uuid("msg", 1)].raises
    /\ Uuid("msg", 2) \in DOMAIN produced
    /\ ~ produced[Uuid("msg", 2)].raises
    /\ \E s \in settled :
          /\ s.kind = "ack"
          /\ s.body.message_id = Uuid("msg", 2)
          /\ s.body.message_type = "task_request"
    /\ agent["LOCAL_CLAUDE"].pc = "consuming"

\* C14: a heartbeat is answered with a status_update addressed to its sender
\* that names this agent as alive, and process_task is not invoked; a message
\* of any type other than task_request and heartbeat gets no response at all:
\* nothing is sent between its delivery and its acknowledgement.
C14_HeartbeatAndOtherTypes ==
    [][ \A a \in Agents :
          LET Type(d) == from_json(d.body).message_type
          IN  /\ (ReceiveStep(a) /\ Type(unacked'[a]) = "HEARTBEAT")
                    => /\ agent'[a].pc = "send"
                       /\ agent'[a].response.message_type = "STATUS_UPDATE"
                       /\ agent'[a].response.source_agent = a
                       /\ agent'[a].response.target_agent =
                             from_json(unacked'[a].body).source_agent
                       /\ agent'[a].response.payload =
                             [status |-> "alive", agent |-> AgentTypeValues[a]]
                       /\ produced' = produced
              /\ (ReceiveStep(a) /\ Type(unacked'[a]) \notin {"TASK_REQUEST", "HEARTBEAT"})
                    => /\ agent'[a].response = NoneValue
                       /\ agent'[a].pc = "settle"
                       /\ ~ agent'[a].failed
                       /\ produced' = produced
                       /\ uuids' = uuids
              /\ (unacked[a] # NoneValue
                    /\ Type(unacked[a]) \notin {"TASK_REQUEST", "HEARTBEAT"})
                    => queues' = queues ]_vars

\* A heartbeat of the orchestrator was answered into the orchestrator's
\* mailbox, and a status_update delivered to the agent was acknowledged
\* with nothing else sent
C14_Witness ==
    /\ Len(queues[AGENT_QUEUES[Orch]]) = 1
    /\ queues[AGENT_QUEUES[Orch]][1].body.message_type = "status_update"
    /\ queues[AGENT_QUEUES[Orch]][1].body.payload =
          [status |-> "alive", agent |-> "local_claude"]
    /\ produced = EmptyDict
    /\ \E s \in settled : s.kind = "ack" /\ s.body.message_type = "heartbeat"
    /\ \E s \in settled : s.kind = "ack" /\ s.body.message_type = "status_update"
    /\ agent["LOCAL_CLAUDE"].pc = "consuming"
    /\ queues[AGENT_QUEUES["LOCAL_CLAUDE"]] = <<>>

\* wait_for_task(id) has returned None: its timeout elapsed
TimedOut(id) ==
    /\ caller.op = "wait_for_task"
    /\ caller.pc = "idle"
    /\ caller.task_id = id
    /\ caller.ret = NoneValue

\* C15: no step of wait_for_task writes the tasks table; it returns a result
\* only for a task it finds completed or failed and None when the timeout
\* elapses first; and a response handled by the listener after that timeout,
\* for a task still tracked, is recorded, so that get_task_status shows the
\* task completed or failed with its result.
C15_TimeoutThenLateResponse ==
    [][ /\ ((caller.pc = "wait" \/ caller'.pc = "wait") /\ caller' # caller)
             => tasks' = tasks
        /\ (caller.pc = "wait" /\ caller'.pc = "idle")
             => IF caller.task_id \in DOMAIN tasks
                     /\ tasks[caller.task_id].status \in Terminal
                     /\ caller'.ret # NoneValue
                THEN caller'.ret = tasks[caller.task_id].result
                ELSE caller'.ret = NoneValue
        /\ \A id \in DOMAIN tasks :
              (HandleStep /\ TimedOut(id) /\ listener.message.correlation_id = id
                    /\ listener.message.message_type \in {"TASK_RESPONSE", "ERROR"})
                 => /\ get_task_status(id)' # NoneValue
                    /\ get_task_status(id)'.status =
                          IF listener.message.message_type = "TASK_RESPONSE"
                            THEN "completed" ELSE "failed"
                    /\ get_task_status(id)'.result =
                          IF listener.message.message_type = "TASK_RESPONSE"
                            THEN listener.message.payload.result
                            ELSE listener.message.payload
                    /\ get_task_status(id)'.completed_at > 0 ]_vars

\* wait_for_task has timed out on a task still in processing, and the agent's
\* response to it is in the listener's hands, about to be recorded
C15_Witness ==
    \E id \in Issued :
        /\ TimedOut(id)
        /\ foreign = 0
        /\ Answered(id)
        /\ get_task_status(id) # NoneValue
        /\ get_task_status(id).status = "processing"
        /\ listener.pc = "handle"
        /\ listener.message.correlation_id = id
        /\ listener.message.message_type = "TASK_RESPONSE"
        /\ listener.message.payload.result = [review |-> "ok"]

\* A step in which get_message returns or raises, and one in which
\* send_message returns
GetStep == listener.pc = "in_get" /\ listener'.pc # "in_get"

\* C16: no transport operation raises on a connection failure: a send_message
\* that could not publish returns False, and a get_message that could not
\* fetch (channel closed by disconnect, or basic_get failing) returns None to
\* its caller instead of raising.
C16_TransportNeverRaises ==
    [][ /\ (PublishStep /\ queues' = queues) => ~ caller'.sent
        /\ (GetStep /\ queues' = queues) => ~ listener'.raised ]_vars

\* connect is running, and a step in which it returns
InConnect == caller.op = "connect" /\ caller.pc # "idle"
ConnectReturns == InConnect /\ caller'.pc = "idle"

RoutedTo(message) ==
    [q \in QueueNames |->
        IF q = AGENT_QUEUES[message.target_agent]
          THEN Append(queues[q], Delivery(message)) ELSE queues[q]]

\* A step in which the send_message of agent a's on_message returns
AgentSendStep(a) == agent[a].pc = "send" /\ agent'[a].pc = "settle"

\* C18: a send_message that returns True has appended the message to the
\* mailbox of its target_agent and to no other, one that returns False has
\* changed no mailbox (the orchestrator's sends and the agents' alike); and
\* every message a consumer or the listener takes out of a mailbox is
\* addressed to the owner of that mailbox.
C18_SendRoutesByTarget ==
    [][ /\ PublishStep
             => IF caller'.sent THEN queues' = RoutedTo(caller.message)
                                ELSE queues' = queues
        /\ \A a \in Agents :
              /\ AgentSendStep(a)
                    => (queues' = queues \/ queues' = RoutedTo(agent[a].response))
              /\ (ReceiveStep(a) /\ from_json_error(unacked'[a].body) = None)
                    => from_json(unacked'[a].body).target_agent = a
        /\ (GetStep /\ listener'.pc = "handle")
             => listener'.message.target_agent = Orch ]_vars

\* The request went to the agent's mailbox only, the agent took it, and its
\* response went to the orchestrator's mailbox only
C18_Witness ==
    /\ foreign = 0
    /\ caller.op = "submit_task"
    /\ caller.sent
    /\ caller.message.target_agent = "LOCAL_CLAUDE"
    /\ agent["LOCAL_CLAUDE"].pc = "settle"
    /\ unacked["LOCAL_CLAUDE"] = Delivery(caller.message)
    /\ queues[AGENT_QUEUES[Orch]] = <<Delivery(agent["LOCAL_CLAUDE"].response)>>
    /\ agent["LOCAL_CLAUDE"].response.target_agent = Orch
    /\ \A q \in QueueNames \ {AGENT_QUEUES[Orch]} : queues[q] = <<>>

\* A step in which clear_completed_tasks runs
ClearStep ==
    /\ caller.op # "clear_completed_tasks"
    /\ caller'.op = "clear_completed_tasks"

\* C19: clear_completed_tasks removes exactly the tasks whose status is
\* completed or failed; every pending or processing task is still tracked
\* afterwards, with every field as it was.
C19_ClearRemovesTerminalOnly ==
    [][ ClearStep =>
          /\ \A k \in DOMAIN tasks :
                IF tasks[k].status \in {"completed", "failed"}
                  THEN k \notin DOMAIN tasks'
                  ELSE k \in DOMAIN tasks' /\ tasks'[k] = tasks[k]
          /\ DOMAIN tasks' \subseteq DOMAIN tasks ]_vars

\* Of three tracked tasks the terminal one was removed, the pending and the
\* processing one are still there
C19_Witness ==
    /\ caller.op = "clear_completed_tasks"
    /\ DOMAIN tasks = {Uuid(Orch, 1), Uuid(Orch, 2)}
    /\ tasks[Uuid(Orch, 1)].status = "pending"
    /\ tasks[Uuid(Orch, 2)].status = "processing"

\* Steps of check_agent_health: one send_message returns, the report is returned
HealthSendStep   == caller.pc = "heartbeat" /\ caller' # caller
HealthReportStep == caller.pc = "stats" /\ caller'.pc = "idle"

\* The heartbeat check_agent_health builds for target
IsHeartbeatTo(message, target) ==
    /\ message.message_type = "HEARTBEAT"
    /\ message.source_agent = Orch
    /\ message.target_agent = target
    /\ message.payload = EmptyDict

\* C20, as stated: when check_agent_health returns, one heartbeat has been
\* sent to every known agent identity, and every agent of the statistics is
\* reported healthy exactly when its mailbox has a consumer.
C20_HeartbeatEveryIdentity ==
    [][ HealthReportStep =>
          /\ \A a \in AgentType :
                Cardinality({i \in 1..Len(caller.published) :
                                caller.published[i] = a}) = 1
          /\ caller'.ret =
                [k \in {AgentTypeValues[a] : a \in AgentType} |->
                    IF consumer_count(AGENT_QUEUES[EnumOf(AgentTypeValues, k)]) > 0
                      THEN "healthy" ELSE "no_consumers"] ]_vars

\* C20, amended: check_agent_health hands one heartbeat to send_message for
\* each of the three worker agents, in order, and for no other identity; each
\* one is appended to its target's mailbox or, when the send fails, dropped.
\* The report has one entry per mailbox of the statistics, the orchestrator's
\* included, and none when there is no channel; an entry is healthy exactly
\* when the statistics give it a consumer count above zero, which is the
\* mailbox's consumer count, or 0 when its statistics call failed.  Nothing
\* else enters the verdict: no reply is read.
C20_HealthFromQueueStats ==
    [][ /\ HealthSendStep
             => LET message == caller'.attempted[Len(caller'.attempted)]
                IN  /\ Len(caller'.attempted) = Len(caller.attempted) + 1
                    /\ IsHeartbeatTo(message, HealthTargets[Len(caller'.attempted)])
                    /\ (queues' = queues \/ queues' = RoutedTo(message))
        /\ HealthReportStep
             => /\ Len(caller.attempted) = 3
                /\ queues' = queues
                /\ DOMAIN caller'.ret =
                      IF channel = "None" THEN {}
                      ELSE {AgentTypeValues[a] : a \in AgentType}
                /\ DOMAIN caller'.stats = DOMAIN caller'.ret
                /\ \A a \in AgentType :
                      LET k == AgentTypeValues[a]
                      IN  k \in DOMAIN caller'.ret
                            => /\ caller'.stats[k].consumers
                                    \in {0, consumer_count(AGENT_QUEUES[a])}
                               /\ caller'.ret[k] = "healthy"
                                    <=> caller'.stats[k].consumers > 0
                               /\ caller'.ret[k] \in {"healthy", "no_consumers"}
                /\ "orchestrator" \in DOMAIN caller'.ret
                      => caller'.ret["orchestrator"] = "no_consumers" ]_vars

\* Two of the three agents are consuming, the third is not; every heartbeat
\* was published, the one to the second agent still lies in its mailbox, and
\* the report says healthy, no_consumers, healthy, and no_consumers for the
\* orchestrator's own mailbox
C20_Witness ==
    /\ caller.op = "check_agent_health"
    /\ caller.pc = "idle"
    /\ caller.published = HealthTargets
    /\ Len(queues[AGENT_QUEUES["LOCAL_OPENAI"]]) = 1
    /\ caller.ret = [local_claude |-> "healthy", local_openai |-> "no_consumers",
                     cloud_gemini |-> "healthy", orchestrator |-> "no_consumers"]

\* A step in which broadcast returns, and the deliveries that carry an
\* announcement
BroadcastStep == caller'.op = "broadcast" /\ caller' # caller
IsAnnouncement(d) == d # NoneValue /\ d.body.payload = [event |-> "shutdown"]

\* C21: broadcast puts its message in no mailbox, so no announcement is ever
\* stored for, or delivered to, an agent, whether it was consuming at the
\* time or started afterwards.
C21_BroadcastNotStored ==
    /\ [][BroadcastStep => queues' = queues]_vars
    /\ [](/\ \A q \in QueueNames :
               \A i \in 1..Len(queues[q]) : ~ IsAnnouncement(queues[q][i])
           /\ \A a \in DOMAIN unacked : ~ IsAnnouncement(unacked[a]))

\* An announcement went out on an open channel, the agent is consuming, and
\* its mailbox and its delivery slot are empty
C21_Witness ==
    /\ caller.op = "broadcast"
    /\ caller.sent
    /\ caller.ret = [value |-> TRUE]
    /\ agent["LOCAL_CLAUDE"].pc # "idle"
    /\ queues[AGENT_QUEUES["LOCAL_CLAUDE"]] = <<>>
    /\ unacked["LOCAL_CLAUDE"] = NoneValue

\* C22: the priority hint send_message puts on a delivery is a defined
\* transport priority for each of low, medium and high, and no other level
\* maps to the same hint.
C22_PriorityMappingInjective ==
    \A q \in QueueNames : \A i \in 1..Len(queues[q]) :
        LET d == queues[q][i] IN
        /\ d.body.priority \in {PriorityValues[p] : p \in Priority}
        /\ d.properties.priority \in 0..255
        /\ \A p \in Priority :
              PriorityValues[p] # d.body.priority
                  => PriorityHint(PriorityValues[p]) # d.properties.priority

\* A low-priority message was sent and sits in its mailbox with its hint
C22_Witness ==
    /\ reply = [value |-> TRUE]
    /\ msg.priority = "LOW"
    /\ \E q \in QueueNames :
         /\ Len(queues[q]) = 1
         /\ queues[q][1].body.priority = "low"
         /\ queues[q][1].properties.priority = 1

\* The settlement records of agent a for delivery d
Acked(a, d)    == [agent |-> a, kind |-> "ack", body |-> d.body]
Requeued(a, d) == [agent |-> a, kind |-> "nack_requeue", body |-> d.body]

Holders(b) ==
    Cardinality({i \in 1..Len(queues[AGENT_QUEUES[InstanceType]]) :
                    queues[AGENT_QUEUES[InstanceType]][i].body = b})
      + Cardinality({<<i, k>> \in Instances \X (1..3) :
                        k <= Len(unacked[i]) /\ unacked[i][k].body = b})

\* The bodies in the mailbox or held by an instance
Bodies ==
    {queues[AGENT_QUEUES[InstanceType]][i].body :
        i \in 1..Len(queues[AGENT_QUEUES[InstanceType]])}
      \cup UNION {{unacked[i][k].body : k \in 1..Len(unacked[i])} : i \in Instances}

\* C24: an instance holds at most one delivered and unsettled message, its
\* handler runs only on that message, and with several instances on one
\* mailbox a message is held by at most one of them, and not by the mailbox
\* at the same time.
C24_PrefetchOne ==
    /\ \A i \in Instances :
          /\ Len(unacked[i]) <= 1
          /\ agent[i].pc \in {"send", "settle"} => Len(unacked[i]) = 1
    /\ \A b \in Bodies : Holders(b) = 1

\* Two instances are inside the handling of two different task requests at
\* once, each holding its own delivery, while a third message waits
C24_Witness ==
    /\ agent[1].pc = "send"
    /\ agent[2].pc = "send"
    /\ IsRequest(Head(unacked[1]))
    /\ IsRequest(Head(unacked[2]))
    /\ Head(unacked[1]) # Head(unacked[2])
    /\ Len(queues[AGENT_QUEUES[InstanceType]]) = 1

\* C25: once the listener has set a task's status to completed or failed
\* for the agent's own response (no other client has published anything),
\* no step of the caller or of the listener takes the status back to pending
\* or processing.
C25_TerminalStatusNeverReverts ==
    [][\A id \in DOMAIN tasks :
        (/\ foreign = 0
         /\ tasks[id].status \in Terminal
         /\ id \in DOMAIN tasks')
            => tasks'[id].status \in Terminal]_vars

\* submit_task returned the non-empty task id
Submitted(id) == caller.op = "submit_task" /\ caller.pc = "idle" /\ caller.ret = id

\* C26: with the listener running, the agent consuming, every send
\* succeeding and fair scheduling, a task whose id submit_task returned
\* eventually has status completed or failed and keeps it.
C26_SubmittedTaskResolves ==
    \A n \in 1..MaxTasks :
        (/\ Submitted(Uuid(Orch, n))
         /\ ListenerRunning
         /\ \A a \in Agents : agent[a].pc # "idle")
            ~> [](/\ Uuid(Orch, n) \in DOMAIN tasks
                  /\ tasks[Uuid(Orch, n)].status \in Terminal)

\* C27: once _handle_response has recorded a terminal outcome for a task
\* (status completed or failed, completed_at stamped), handling any later
\* message with the same correlation id leaves the task's status, result
\* and completed_at as they were.
C27_FirstResponseWins ==
    [][\A id \in DOMAIN tasks :
        (/\ HandleStep
         /\ listener.message.correlation_id = id
         /\ tasks[id].status \in Terminal
         /\ tasks[id].completed_at # 0)
            => /\ id \in DOMAIN tasks'
               /\ tasks'[id].status = tasks[id].status
               /\ tasks'[id].result = tasks[id].result
               /\ tasks'[id].completed_at = tasks[id].completed_at]_vars

\* C28: whenever the caller is outside any orchestrator operation, every
\* correlation id with a registered callback is the key of a tracked task
\* whose status is not terminal.
C28_HandlersBelongToOpenTasks ==
    CallerIdle =>
        \A id \in DOMAIN response_handlers :
            /\ id \in DOMAIN tasks
            /\ tasks[id].status \notin Terminal

\* C29: the consumer acknowledges a task_request only if the response it
\* produced was handed to the transport, so that at the acknowledgement the
\* response is in its target's mailbox.
C29_AckOnlyAfterResponseSent ==
    [][\A a \in Agents :
        (/\ SettleStep(a)
         /\ IsRequest(unacked[a])
         /\ Acked(a, unacked[a]) \in settled')
            => \E i \in 1..Len(queues[send_queue(agent[a].response)]) :
                  queues[send_queue(agent[a].response)][i] = Delivery(agent[a].response)
    ]_vars

\* The orchestrator mailbox, and the most messages it can hold
Inbox == queues[AGENT_QUEUES[Orch]]
MaxInbox == MaxTasks + MaxForeign

\* C30: the listener loop ends only once _running is False, also after a
\* body that does not decode or a callback that raises; a body it fetched is
\* removed from the mailbox and never put back; a body that decodes is
\* passed to _handle_response; while the listener runs on an open channel it
\* keeps draining the mailbox and handling what it fetched; and once
\* disconnect has cleared _running the loop exits.
C30_ListenerSurvivesBadInput ==
    /\ [][ /\ (ListenerStep /\ running) => listener'.pc # "stopped"
           /\ ListenerStep => (\/ Inbox' = Inbox
                                \/ (Inbox # <<>> /\ Inbox' = Tail(Inbox)))
           /\ (GetStep /\ Inbox' # Inbox) =>
                 IF from_json_error(Head(Inbox).body) = None
                 THEN /\ listener'.pc = "handle"
                      /\ listener'.message = from_json(Head(Inbox).body)
                 ELSE /\ listener'.pc = "loop"
                      /\ listener'.raised
           /\ (HandleStep /\ listener'.raised) => running' = running ]_vars
    /\ \A n \in 1..MaxInbox :
          (ListenerRunning /\ channel = "open" /\ Len(Inbox) >= n)
              ~> (Len(Inbox) < n \/ ~ running \/ channel # "open")
    /\ (listener.pc = "handle") ~> (listener.pc = "loop")
    /\ (~ running /\ listener.pc # "stopped") ~> (listener.pc = "stopped")

\* A registered callback has just raised in the listener thread, the loop
\* is still running on an open channel, and a well-formed message waits at
\* the head of the orchestrator mailbox
C30_Witness ==
    /\ listener.pc = "loop"
    /\ listener.raised
    /\ running
    /\ channel = "open"
    /\ \E id \in DOMAIN invoked : invoked[id] = 1
    /\ Inbox # <<>>
    /\ from_json_error(Head(Inbox).body) = None
=============================================================================
